---- MODULE Spec2Model ----
(***************************************************************************)
(* Model of MovieExtractor2.py: the AdvancedMediaSearch query planner      *)
(* (advanced_search, fetch_by_genre, fetch_by_year, _basic_search), the    *)
(* result normaliser (convert_results_to_dataframe), the genre maps built  *)
(* at construction (_get_genre_mappings) and the interactive session of    *)
(* MediaSearchCLI (run, the four search handlers, display_results).        *)
(*                                                                         *)
(* Python values are modelled as follows.                                  *)
(*   - an optional value (None / a missing dict key) is <<>>, a present    *)
(*     value v is <<v>>;                                                   *)
(*   - a string the code transforms (lower, split, int, upper) is a        *)
(*     sequence of one-character strings; a string the code only passes    *)
(*     on or compares is a TLA+ string;                                    *)
(*   - a dict with string keys is a function over its set of keys.         *)
(***************************************************************************)
EXTENDS Integers, Sequences, FiniteSets, TLC

VARIABLES
    pc,             \* where the process is: "start", "menu", "pager", "pause",
                    \* "exited"; "norm", "normalized" for the normaliser alone
    movie_genres,   \* self.movie_genres
    tv_genres,      \* self.tv_genres
    genre_fetch,    \* what the two genre list calls of __init__ came back with
    choice,         \* the menu choice being served
    req,            \* the advanced_search call of the handler being served
    results,        \* display_results: the rows it was given
    current_page,   \* display_results: current_page
    total_pages,    \* display_results: total_pages
    page_results,   \* display_results: the rows printed last
    nav,            \* display_results: the key read last, upper-cased
    exit_code,      \* the exit status of the process, once it has one
    norm_in,        \* the raw items given to the normaliser alone
    norm_out        \* what the normaliser made of them

vars == <<pc, movie_genres, tv_genres, genre_fetch, choice, req, results,
          current_page, total_pages, page_results, nav, exit_code,
          norm_in, norm_out>>

pager == <<results, current_page, total_pages, page_results, nav>>

maps == <<movie_genres, tv_genres, genre_fetch>>

norm == <<norm_in, norm_out>>

(***************************************************************************)
(* Bounds of the model.                                                    *)
(***************************************************************************)
\* largest number of items an upstream result list carries in a session
MaxRows == 12

\* largest number of raw items handed to the normaliser on its own
MaxItems == 2

(***************************************************************************)
(* Python values.                                                          *)
(***************************************************************************)
None == <<>>

Some(v) == <<v>>

IsSome(o) == o # <<>>

Val(o) == o[1]

\* the empty str, as a sequence of characters
EmptyStr == <<>>

Min(a, b) == IF a < b THEN a ELSE b

UpperAlphabet == <<"A","B","C","D","E","F","G","H","I","J","K","L","M",
                   "N","O","P","Q","R","S","T","U","V","W","X","Y","Z">>

LowerAlphabet == <<"a","b","c","d","e","f","g","h","i","j","k","l","m",
                   "n","o","p","q","r","s","t","u","v","w","x","y","z">>

\* str.lower(), character by character
LowerChar(c) ==
    IF \E i \in 1..26 : UpperAlphabet[i] = c
    THEN LowerAlphabet[CHOOSE i \in 1..26 : UpperAlphabet[i] = c]
    ELSE c

Lower(s) == [i \in 1..Len(s) |-> LowerChar(s[i])]

\* str.upper(), character by character
UpperChar(c) ==
    IF \E i \in 1..26 : LowerAlphabet[i] = c
    THEN UpperAlphabet[CHOOSE i \in 1..26 : LowerAlphabet[i] = c]
    ELSE c

Upper(s) == [i \in 1..Len(s) |-> UpperChar(s[i])]

Digits == <<"0","1","2","3","4","5","6","7","8","9">>

IsDigit(c) == \E i \in 1..10 : Digits[i] = c

DigitVal(c) == (CHOOSE i \in 1..10 : Digits[i] = c) - 1

RECURSIVE DigitsValue(_)
DigitsValue(s) ==
    IF s = <<>> THEN 0
    ELSE 10 * DigitsValue(SubSeq(s, 1, Len(s) - 1)) + DigitVal(s[Len(s)])

\* int(s) for a str over letters, digits and "-": a non-empty run of digits,
\* optionally after one "-", is a number; everything else is a ValueError
ParseInt(s) ==
    IF s # <<>> /\ \A i \in 1..Len(s) : IsDigit(s[i])
    THEN [ok |-> TRUE, val |-> DigitsValue(s)]
    ELSE IF Len(s) > 1 /\ s[1] = "-" /\ \A i \in 2..Len(s) : IsDigit(s[i])
    THEN [ok |-> TRUE, val |-> 0 - DigitsValue(SubSeq(s, 2, Len(s)))]
    ELSE [ok |-> FALSE, val |-> 0]

\* s.split('-')[0]: the characters before the first "-", all of s if none
SplitFirst(s) ==
    IF \E i \in 1..Len(s) : s[i] = "-"
    THEN SubSeq(s, 1, (CHOOSE i \in 1..Len(s) :
                          s[i] = "-" /\ \A j \in 1..(i - 1) : s[j] # "-") - 1)
    ELSE s

(***************************************************************************)
(* convert_results_to_dataframe.  A raw item is a record of optional       *)
(* fields; a field is <<>> when the key is missing from the dict.          *)
(***************************************************************************)
\* item.get('release_date') or item.get('first_air_date')
ItemDate(item) ==
    IF IsSome(item.release_date) /\ Val(item.release_date) # EmptyStr
    THEN item.release_date
    ELSE item.first_air_date

\* truthiness of the str or None that ItemDate yields
DateTruthy(d) == IsSome(d) /\ Val(d) # EmptyStr

\* int(release_date.split('-')[0]) raises ValueError
ItemRaises(item) ==
    /\ DateTruthy(ItemDate(item))
    /\ ~ParseInt(SplitFirst(Val(ItemDate(item)))).ok

\* the dict appended to search_data for one item
NormalizeItem(item) ==
    [title |-> IF IsSome(item.title) THEN Val(item.title)
               ELSE IF IsSome(item.name) THEN Val(item.name)
               ELSE "N/A",
     release_year |-> IF DateTruthy(ItemDate(item))
                      THEN Some(ParseInt(SplitFirst(Val(ItemDate(item)))).val)
                      ELSE None,
     overview |-> IF IsSome(item.overview) THEN Val(item.overview)
                  ELSE "No overview",
     popularity |-> IF IsSome(item.popularity) THEN Val(item.popularity)
                    ELSE 0]

\* the whole function: the rows of the DataFrame, or the exception that
\* leaves the loop
convert_results_to_dataframe(items) ==
    IF \E i \in 1..Len(items) : ItemRaises(items[i])
    THEN [raised |-> "ValueError", rows |-> <<>>]
    ELSE [raised |-> "", rows |-> [i \in 1..Len(items) |-> NormalizeItem(items[i])]]

(***************************************************************************)
(* The catalog service, as far as the program reads it.  One response of   *)
(* requests.get(...).json() is either an exception (network error, body    *)
(* that is not JSON) or a dict whose list may be missing.                  *)
(***************************************************************************)
GenreEntry(name, id) == [name |-> name, id |-> id]

War == <<"W","a","r">>

Drama == <<"D","r","a","m","a">>

Kids == <<"K","i","d","s">>

MovieGenreList == <<GenreEntry(Some(War), 10752), GenreEntry(Some(Drama), 18)>>

TvGenreList == <<GenreEntry(Some(Kids), 10762), GenreEntry(Some(Drama), 18)>>

\* what the genre/{media_type}/list call can come back with: an exception,
\* a dict without "genres", the genre list, a list with an entry that has
\* no "name"
GenrePayloads(list) ==
    { [kind |-> "error", genres |-> None],
      [kind |-> "json", genres |-> None],
      [kind |-> "json", genres |-> Some(list)],
      [kind |-> "json", genres |-> Some(Append(list, GenreEntry(None, 99)))] }

Date2020 == <<"2","0","2","0","-","0","5","-","1","7">>

Date1999 == <<"1","9","9","9","-","1","2","-","0","1">>

DateTBA == <<"T","B","A">>

\* the i-th item of the catalog: a movie record for odd i, a TV record for
\* even i
CatalogItem(i) ==
    IF i % 2 = 1
    THEN [title |-> Some("Dune"), name |-> None,
          release_date |-> Some(Date2020), first_air_date |-> None,
          overview |-> Some("A desert planet."), popularity |-> Some(i)]
    ELSE [title |-> None, name |-> Some("Stranger Things"),
          release_date |-> None, first_air_date |-> Some(Date1999),
          overview |-> None, popularity |-> Some(i)]

\* an item announced without a release date yet
UnreleasedItem ==
    [title |-> Some("Untitled"), name |-> None,
     release_date |-> Some(DateTBA), first_air_date |-> None,
     overview |-> None, popularity |-> None]

CatalogPrefix(n) == [i \in 1..n |-> CatalogItem(i)]

\* what a search/discover call can come back with
UpstreamResponses ==
    { [kind |-> "error", results |-> None],
      [kind |-> "json", results |-> None],
      [kind |-> "json", results |-> Some(<<CatalogItem(1), UnreleasedItem>>)] }
    \cup { [kind |-> "json", results |-> Some(CatalogPrefix(n))] : n \in 0..MaxRows }

\* response.json().get("results", []) inside try / except Exception: return []
UpstreamResults(resp) ==
    IF resp.kind = "error" THEN <<>>
    ELSE IF IsSome(resp.results) THEN Val(resp.results)
    ELSE <<>>

(***************************************************************************)
(* AdvancedMediaSearch.                                                    *)
(***************************************************************************)
EmptyMap == <<>>

\* the dict comprehension {g["name"].lower(): g["id"] for g in genres}: a
\* later entry with the same lowered name replaces an earlier one
GenreDict(gs) ==
    [k \in {Lower(Val(gs[i].name)) : i \in 1..Len(gs)} |->
        gs[CHOOSE i \in 1..Len(gs) :
              /\ Lower(Val(gs[i].name)) = k
              /\ \A j \in (i + 1)..Len(gs) : Lower(Val(gs[j].name)) # k].id]

\* as get_genre_mappings, but an entry without a name is skipped instead of
\* failing the whole list
get_genre_mappings_skip(payload) ==
    IF payload.kind = "error" THEN EmptyMap
    ELSE LET gs == IF IsSome(payload.genres) THEN Val(payload.genres) ELSE <<>>
         IN  GenreDict(SelectSeq(gs, LAMBDA g : IsSome(g.name)))

get_genre_mappings(payload) ==
    IF payload.kind = "error" THEN EmptyMap
    ELSE LET gs == IF IsSome(payload.genres) THEN Val(payload.genres) ELSE <<>>
         IN  IF \E i \in 1..Len(gs) : ~IsSome(gs[i].name)
             THEN EmptyMap
             ELSE GenreDict(gs)

\* the params dict of a request, without the constant api_key, language and
\* page entries
NoParams ==
    [query |-> None, with_genres |-> None,
     primary_release_year |-> None, first_air_date_year |-> None]

Request(endpoint, media_type, params) ==
    [endpoint |-> endpoint, media_type |-> media_type, params |-> params]

\* key = "primary_release_year" if media_type == "movie" else "first_air_date_year"
YearKey(media_type) ==
    IF media_type = "movie" THEN "primary_release_year" ELSE "first_air_date_year"

\* truthiness of a str-or-None and of an int-or-None
TruthyStr(o) == IsSome(o) /\ Val(o) # EmptyStr

TruthyInt(o) == IsSome(o) /\ Val(o) # 0

basic_search(query, media_type, resp) ==
    [consulted |-> FALSE,
     calls |-> <<Request("search", media_type,
                         [NoParams EXCEPT !.query = Some(query)])>>,
     results |-> UpstreamResults(resp)]

\* genre_map = self.movie_genres if media_type == "movie" else self.tv_genres
GenreMapFor(media_type) ==
    IF media_type = "movie" THEN movie_genres ELSE tv_genres

\* as fetch_by_genre, but the genre list is fetched again before the lookup
fetch_by_genre_refetch(genre, media_type, release_year, resp) ==
    LET genre_map == GenreMapFor(media_type)
        listing == Request("genre/list", media_type, NoParams)
    IN  IF Lower(genre) \notin DOMAIN genre_map
        THEN [consulted |-> TRUE, calls |-> <<listing>>, results |-> <<>>]
        ELSE LET base == [NoParams EXCEPT
                             !.with_genres = Some(genre_map[Lower(genre)])]
                 params == IF TruthyInt(release_year)
                           THEN [base EXCEPT ![YearKey(media_type)] = release_year]
                           ELSE base
             IN  [consulted |-> TRUE,
                  calls |-> <<listing, Request("discover", media_type, params)>>,
                  results |-> UpstreamResults(resp)]

fetch_by_genre(genre, media_type, release_year, resp) ==
    LET genre_map == GenreMapFor(media_type)
    IN  IF Lower(genre) \notin DOMAIN genre_map
        THEN [consulted |-> TRUE, calls |-> <<>>, results |-> <<>>]
        ELSE LET base == [NoParams EXCEPT
                             !.with_genres = Some(genre_map[Lower(genre)])]
                 params == IF TruthyInt(release_year)
                           THEN [base EXCEPT ![YearKey(media_type)] = release_year]
                           ELSE base
             IN  [consulted |-> TRUE,
                  calls |-> <<Request("discover", media_type, params)>>,
                  results |-> UpstreamResults(resp)]

fetch_by_year(year, media_type, resp) ==
    [consulted |-> FALSE,
     calls |-> <<Request("discover", media_type,
                         [NoParams EXCEPT ![YearKey(media_type)] = Some(year)])>>,
     results |-> UpstreamResults(resp)]

\* the branch advanced_search takes
Branch(genre, release_year) ==
    IF TruthyStr(genre) THEN "genre"
    ELSE IF TruthyInt(release_year) THEN "year"
    ELSE "search"

\* advanced_search(query, media_type, filters), filters given by what
\* filters.get('genre') and filters.get('release_year') return; resp is the
\* answer of the catalog service to the call made, if one is made
advanced_search(query, media_type, genre, release_year, resp) ==
    LET branch == Branch(genre, release_year)
        fetched == IF branch = "genre"
                   THEN fetch_by_genre(Val(genre), media_type, release_year, resp)
                   ELSE IF branch = "year"
                   THEN fetch_by_year(Val(release_year), media_type, resp)
                   ELSE basic_search(query, media_type, resp)
        frame == convert_results_to_dataframe(fetched.results)
    IN  [invoked |-> TRUE, query |-> query, media_type |-> media_type,
         genre |-> genre, release_year |-> release_year,
         branch |-> branch, consulted |-> fetched.consulted,
         calls |-> fetched.calls, raised |-> frame.raised, rows |-> frame.rows]

\* a handler whose try block raised before advanced_search was called
NotInvoked(raised) ==
    [invoked |-> FALSE, query |-> "", media_type |-> "",
     genre |-> None, release_year |-> None,
     branch |-> "none", consulted |-> FALSE,
     calls |-> <<>>, raised |-> raised, rows |-> <<>>]

(***************************************************************************)
(* MediaSearchCLI.display_results.                                         *)
(***************************************************************************)
page_size == 5

\* as TotalPages, but rounding down
TotalPages_floor(total_results) == total_results \div page_size

\* total_pages = (total_results + page_size - 1) // page_size
TotalPages(total_results) == (total_results + page_size - 1) \div page_size

\* results.iloc[start_idx:end_idx], a slice that stops at the last row
PageSlice(rows, page) ==
    LET start_idx == (page - 1) * page_size
        end_idx == start_idx + page_size
    IN  SubSeq(rows, start_idx + 1, Min(end_idx, Len(rows)))

KeyN == <<"N">>

KeyP == <<"P">>

KeyB == <<"B">>

\* as NavStep, but N is not checked against the last page
NavStep_unbounded(key, page, pages) ==
    IF key = KeyN THEN [page |-> page + 1, done |-> FALSE]
    ELSE IF key = KeyP /\ page > 1 THEN [page |-> page - 1, done |-> FALSE]
    ELSE IF key = KeyB THEN [page |-> page, done |-> TRUE]
    ELSE [page |-> page, done |-> FALSE]

\* the if / elif chain on nav: the page shown next, and whether the loop ends
NavStep(key, page, pages) ==
    IF key = KeyN /\ page < pages THEN [page |-> page + 1, done |-> FALSE]
    ELSE IF key = KeyP /\ page > 1 THEN [page |-> page - 1, done |-> FALSE]
    ELSE IF key = KeyB THEN [page |-> page, done |-> TRUE]
    ELSE [page |-> page, done |-> FALSE]

(***************************************************************************)
(* What the user types.                                                    *)
(***************************************************************************)
QueryInputs == {"", "Dune"}

MediaTypeInputs == {"", "movie", "tv", "film"}

GenreInputs == {EmptyStr, <<"W","A","R">>, Kids, <<"N","o","i","r">>}

YearInputs == {EmptyStr, <<"2","0","2","0">>, <<"0">>, <<"a","b","c">>}

NavInputs == {<<"n">>, <<"N">>, <<"p">>, <<"P">>, <<"b">>, <<"B">>, <<"x">>, EmptyStr}

\* input(...) or "movie"
OrMovie(media_type) == IF media_type = "" THEN "movie" ELSE media_type

(***************************************************************************)
(* The session: main(), MediaSearchCLI.run and its handlers.               *)
(***************************************************************************)
Init ==
    /\ pc = "start"
    /\ movie_genres = EmptyMap
    /\ tv_genres = EmptyMap
    /\ genre_fetch = None
    /\ choice = 0
    /\ req = NotInvoked("")
    /\ results = <<>>
    /\ current_page = 0
    /\ total_pages = 0
    /\ page_results = <<>>
    /\ nav = None
    /\ exit_code = None
    /\ norm_in = <<>>
    /\ norm_out = None

\* AdvancedMediaSearch.__init__ and MediaSearchCLI.__init__ up to the first menu
Construct ==
    /\ pc = "start"
    /\ \E mp \in GenrePayloads(MovieGenreList), tp \in GenrePayloads(TvGenreList) :
          /\ movie_genres' = get_genre_mappings(mp)
          /\ tv_genres' = get_genre_mappings(tp)
          /\ genre_fetch' = Some([movie |-> mp, tv |-> tp])
    /\ pc' = "menu"
    /\ UNCHANGED <<choice, req, pager, exit_code, norm>>

\* as Handled, but without the try / except
Handled_uncaught(out) == IF out.raised # "" THEN "uncaught" ELSE "returned"

\* try: ... except Exception as e: print(...) around the body of a handler
Handled(out) == IF out.raised # "" THEN "caught" ELSE "returned"

ClosePager ==
    /\ results' = <<>>
    /\ current_page' = 0
    /\ total_pages' = 0
    /\ page_results' = <<>>
    /\ nav' = None

\* the rest of a handler once advanced_search has returned or raised:
\* display_results up to its first prompt, or the except clause
Serve(c, out) ==
    /\ choice' = c
    /\ req' = out
    /\ IF out.raised # "" /\ Handled(out) # "caught"
       THEN /\ pc' = "exited"
            /\ exit_code' = Some(1)
            /\ ClosePager
       ELSE IF out.raised # "" \/ out.rows = <<>>
       THEN /\ pc' = "pause"
            /\ ClosePager
            /\ UNCHANGED exit_code
       ELSE /\ pc' = "pager"
            /\ results' = out.rows
            /\ total_pages' = TotalPages(Len(out.rows))
            /\ current_page' = 1
            /\ page_results' = PageSlice(out.rows, 1)
            /\ nav' = None
            /\ UNCHANGED exit_code
    /\ UNCHANGED <<maps, norm>>

\* choice 1
search_by_title ==
    /\ pc = "menu"
    /\ \E query \in QueryInputs, mt \in MediaTypeInputs, resp \in UpstreamResponses :
          Serve(1, advanced_search(query, OrMovie(mt), None, None, resp))

\* choice 2
search_by_genre ==
    /\ pc = "menu"
    /\ \E genre \in GenreInputs, mt \in MediaTypeInputs, year \in YearInputs,
          resp \in UpstreamResponses :
          IF year # EmptyStr /\ ~ParseInt(year).ok
          THEN Serve(2, NotInvoked("ValueError"))
          ELSE Serve(2, advanced_search("", OrMovie(mt), Some(genre),
                           IF year # EmptyStr THEN Some(ParseInt(year).val) ELSE None,
                           resp))

\* choice 3
search_by_year ==
    /\ pc = "menu"
    /\ \E year \in YearInputs, resp \in UpstreamResponses :
          IF ~ParseInt(year).ok
          THEN Serve(3, NotInvoked("ValueError"))
          ELSE Serve(3, advanced_search("", "movie", None,
                                        Some(ParseInt(year).val), resp))

\* choice 4
advanced_search_cli ==
    /\ pc = "menu"
    /\ \E query \in QueryInputs, mt \in MediaTypeInputs, genre \in GenreInputs,
          year \in YearInputs, resp \in UpstreamResponses :
          Serve(4, advanced_search(query, OrMovie(mt),
                      IF genre # EmptyStr THEN Some(genre) ELSE None,
                      IF year # EmptyStr /\ ParseInt(year).ok
                      THEN Some(ParseInt(year).val) ELSE None,
                      resp))

\* choice 5
Exit ==
    /\ pc = "menu"
    /\ choice' = 5
    /\ pc' = "exited"
    /\ exit_code' = Some(0)
    /\ UNCHANGED <<maps, req, pager, norm>>

\* one turn of the while loop of display_results: read a key, act on it
Navigate(key) ==
    /\ pc = "pager"
    /\ LET step == NavStep(Upper(key), current_page, total_pages)
       IN  IF step.done
           THEN /\ pc' = "pause"
                /\ nav' = Some(Upper(key))
                /\ UNCHANGED <<results, current_page, total_pages, page_results>>
           ELSE /\ pc' = "pager"
                /\ nav' = Some(Upper(key))
                /\ current_page' = step.page
                /\ page_results' = PageSlice(results, step.page)
                /\ UNCHANGED <<results, total_pages>>
    /\ UNCHANGED <<maps, choice, req, exit_code, norm>>

Browse == \E key \in NavInputs : Navigate(key)

\* the user leaves the pager
Back == \E key \in {<<"b">>, <<"B">>} : Navigate(key)

\* input("\nPress Enter to continue...") and the next turn of the loop of
\* run; nothing of the handler that was served outlives it
Continue ==
    /\ pc = "pause"
    /\ pc' = "menu"
    /\ choice' = 0
    /\ req' = NotInvoked("")
    /\ ClosePager
    /\ UNCHANGED <<maps, exit_code, norm>>

Next ==
    \/ Construct
    \/ search_by_title
    \/ search_by_genre
    \/ search_by_year
    \/ advanced_search_cli
    \/ Exit
    \/ Browse
    \/ Continue

Spec == Init /\ [][Next]_vars

\* the user answers every prompt and leaves the pager at some point
FairSpec == Spec /\ WF_vars(Back) /\ WF_vars(Continue)

(***************************************************************************)
(* The normaliser alone, over raw items of every shape.                    *)
(***************************************************************************)
RawItems ==
    { [title |-> t, name |-> n, release_date |-> rd, first_air_date |-> fd,
       overview |-> e[1], popularity |-> e[2]] :
        t \in {None, Some("Dune")},
        n \in {None, Some("Stranger Things")},
        rd \in {None, Some(EmptyStr), Some(Date2020), Some(DateTBA)},
        fd \in {None, Some(Date1999), Some(<<"-","0","1">>)},
        e \in {<<None, None>>, <<Some("A desert planet."), Some(7)>>} }

NormInit ==
    /\ pc = "norm"
    /\ norm_in \in UNION {[1..n -> RawItems] : n \in 0..MaxItems}
    /\ norm_out = None
    /\ movie_genres = EmptyMap
    /\ tv_genres = EmptyMap
    /\ genre_fetch = None
    /\ choice = 0
    /\ req = NotInvoked("")
    /\ results = <<>>
    /\ current_page = 0
    /\ total_pages = 0
    /\ page_results = <<>>
    /\ nav = None
    /\ exit_code = None

Normalize ==
    /\ pc = "norm"
    /\ norm_out' = Some(convert_results_to_dataframe(norm_in))
    /\ pc' = "normalized"
    /\ UNCHANGED <<maps, choice, req, pager, exit_code, norm_in>>

NormNext == Normalize

NormSpec == NormInit /\ [][NormNext]_vars

(***************************************************************************)
(* Properties.                                                             *)
(***************************************************************************)
\* a filter is present when the caller supplied a value for it
Present(o) == IsSome(o)

\* the year a request carries, under either key
CarriesYear(c, year) ==
    \/ c.params.primary_release_year = year
    \/ c.params.first_air_date_year = year

HasYearKey(c) ==
    \/ IsSome(c.params.primary_release_year)
    \/ IsSome(c.params.first_air_date_year)

\* C1: every advanced_search call takes the genre branch when a genre was
\* supplied (a discover request with a genre id, and with the year when a
\* year was supplied too), else the year branch when a year was supplied (a
\* discover request with the year only), else the plain search with the
\* query; a supplied value counts whatever it is, 0 and "" included.
C1_FilterPrecedence ==
    req.invoked =>
        IF Present(req.genre)
        THEN /\ req.branch = "genre"
             /\ \A i \in 1..Len(req.calls) :
                   /\ req.calls[i].endpoint = "discover"
                   /\ IsSome(req.calls[i].params.with_genres)
                   /\ req.calls[i].params.query = None
                   /\ IF Present(req.release_year)
                      THEN CarriesYear(req.calls[i], req.release_year)
                      ELSE ~HasYearKey(req.calls[i])
        ELSE IF Present(req.release_year)
        THEN /\ req.branch = "year"
             /\ Len(req.calls) = 1
             /\ req.calls[1].endpoint = "discover"
             /\ req.calls[1].params.with_genres = None
             /\ req.calls[1].params.query = None
             /\ CarriesYear(req.calls[1], req.release_year)
        ELSE /\ req.branch = "search"
             /\ req.calls = <<Request("search", req.media_type,
                                      [NoParams EXCEPT !.query = Some(req.query)])>>

\* C2: an advanced_search call whose media type is neither movie nor tv
\* fails with InvalidCategory, having read no genre map and made no request.
C2_InvalidCategoryRejected ==
    req.invoked /\ req.media_type \notin {"movie", "tv"} =>
        /\ req.raised = "InvalidCategory"
        /\ ~req.consulted
        /\ req.calls = <<>>
        /\ req.rows = <<>>

\* a date a year can be read from: digits up to the first "-"
YearReadable(d) ==
    LET head == SplitFirst(d)
    IN  head # <<>> /\ \A i \in 1..Len(head) : IsDigit(head[i])

\* C3: for every sequence of raw items the normaliser raises nothing and
\* returns one row per item, in order; an item whose date is missing or
\* not readable as a year gets no release year.
C3_NormalizeTotal ==
    pc = "normalized" =>
        /\ Val(norm_out).raised = ""
        /\ Len(Val(norm_out).rows) = Len(norm_in)
        /\ \A i \in 1..Len(norm_in) :
              LET item == norm_in[i]
                  row == Val(norm_out).rows[i]
              IN  /\ row.popularity =
                        (IF IsSome(item.popularity) THEN Val(item.popularity) ELSE 0)
                  /\ (~DateTruthy(ItemDate(item)) \/ ~YearReadable(Val(ItemDate(item)))
                        => row.release_year = None)

\* C4: a discover request with a year carries it under primary_release_year
\* exactly when the media type is movie and under first_air_date_year
\* exactly when the media type is tv, never under both.
C4_YearKeyByCategory ==
    \A i \in 1..Len(req.calls) :
        LET c == req.calls[i]
        IN  c.endpoint = "discover" /\ HasYearKey(c) =>
               /\ IsSome(c.params.primary_release_year) <=> c.media_type = "movie"
               /\ IsSome(c.params.first_air_date_year) <=> c.media_type = "tv"
               /\ ~(IsSome(c.params.primary_release_year)
                      /\ IsSome(c.params.first_air_date_year))

\* C5: an advanced_search call whose supplied genre is not a key of the
\* genre map of its media type returns no rows and makes no request,
\* whatever year or query came with it.
C5_UnresolvedGenreNoCall ==
    /\ req.invoked
    /\ Present(req.genre)
    /\ Lower(Val(req.genre)) \notin DOMAIN GenreMapFor(req.media_type)
    => /\ req.calls = <<>>
       /\ req.rows = <<>>
       /\ req.raised = ""

\* a step of the pager: N on the last page and P on the first page change
\* nothing, and the loop ends on B and on nothing else
C6_Step ==
    pc = "pager" =>
        /\ (nav' = Some(KeyN) /\ current_page = total_pages
              => current_page' = current_page /\ pc' = "pager")
        /\ (nav' = Some(KeyP) /\ current_page = 1
              => current_page' = current_page /\ pc' = "pager")
        /\ (pc' # "pager" <=> nav' = Some(KeyB))

\* C6: while the pager runs, 1 <= current_page <= total_pages; N on the last
\* page and P on the first page leave the page as it is; only B ends the loop.
C6_PagerBounds ==
    /\ [](pc = "pager" => 1 <= current_page /\ current_page <= total_pages)
    /\ [][C6_Step]_vars

\* N was typed on the only page and the pager is still on it
C6_Witness ==
    /\ pc = "pager"
    /\ nav = Some(KeyN)
    /\ total_pages = 1
    /\ current_page = 1

\* C7: an advanced_search call makes at most one request, a search or a
\* discover; none goes to the genre list.
C7_AtMostOneCall ==
    req.invoked =>
        /\ Len(req.calls) <= 1
        /\ \A i \in 1..Len(req.calls) :
              req.calls[i].endpoint \in {"search", "discover"}

\* a genre was resolved from the map and one discover request, with the
\* year, went out
C7_Witness ==
    /\ req.invoked
    /\ req.branch = "genre"
    /\ req.consulted
    /\ Len(req.calls) = 1
    /\ HasYearKey(req.calls[1])

\* the genre list call failed: it raised, or its payload has no list or an
\* entry without a name
FetchFailed(payload) ==
    \/ payload.kind = "error"
    \/ payload.genres = None
    \/ \E i \in 1..Len(Val(payload.genres)) : Val(payload.genres)[i].name = None

C8_Degraded ==
    IsSome(genre_fetch) =>
        /\ pc # "start"
        /\ (FetchFailed(Val(genre_fetch).movie) => movie_genres = EmptyMap)
        /\ (FetchFailed(Val(genre_fetch).tv) => tv_genres = EmptyMap)
        /\ \A m \in {"movie", "tv"} :
              /\ FetchFailed(Val(genre_fetch)[m])
              /\ req.invoked
              /\ req.consulted
              /\ req.media_type = m
              => req.calls = <<>> /\ req.rows = <<>> /\ req.raised = ""

\* C8: a genre list call that fails leaves construction complete and the map
\* of its category empty, every later lookup in that category finds nothing
\* and raises nothing; no step after construction changes a genre map.
C8_GenreMapDegrades ==
    /\ []C8_Degraded
    /\ [][pc # "start" => movie_genres' = movie_genres /\ tv_genres' = tv_genres]_vars

\* a genre was looked up in the movie map after the movie genre list failed
C8_Witness ==
    /\ pc = "pause"
    /\ IsSome(genre_fetch)
    /\ FetchFailed(Val(genre_fetch).movie)
    /\ req.invoked
    /\ req.consulted
    /\ req.media_type = "movie"

Ceil(n, d) == CHOOSE t \in 0..n : t * d >= n /\ \A u \in 0..(t - 1) : u * d < n

\* rows (k-1)*5 .. min(k*5, n) - 1 of rows, counted from 0
RowsOfPage(rows, k) ==
    [i \in 1..(Min(k * 5, Len(rows)) - (k - 1) * 5) |-> rows[(k - 1) * 5 + i]]

RECURSIVE PagesUpTo(_, _)
PagesUpTo(rows, k) ==
    IF k = 0 THEN <<>> ELSE PagesUpTo(rows, k - 1) \o PageSlice(rows, k)

\* C10: the pager of n rows has ceil(n / 5) pages, shows on page k the rows
\* (k-1)*5 .. min(k*5, n) - 1, and its pages in order are the rows, each
\* once; with no rows it shows no page and ends without error.
C10_Pagination ==
    /\ pc = "pager" =>
          /\ total_pages = Ceil(Len(results), 5)
          /\ page_results = RowsOfPage(results, current_page)
          /\ PagesUpTo(results, total_pages) = results
          /\ \A k \in 1..total_pages : PageSlice(results, k) = RowsOfPage(results, k)
    /\ req.invoked /\ req.raised = "" /\ req.rows = <<>> =>
          pc \in {"pause", "menu"} /\ page_results = <<>> /\ exit_code = None

\* twelve rows, the third page of three is shown and has two rows
C10_Witness ==
    /\ pc = "pager"
    /\ Len(results) = 12
    /\ total_pages = 3
    /\ current_page = 3
    /\ Len(page_results) = 2

====
